---- MODULE Spec2Model ----
(***************************************************************************)
(* BaZi (Eight Characters) element analysis and 4D recommendation:         *)
(* a model of main.py.                                                     *)
(*                                                                         *)
(* Text is a sequence of one-character strings.  The Chinese symbols of    *)
(* the tables are written in pinyin:                                       *)
(*   STEMS     jia yi bing ding wu ji geng xin ren gui                     *)
(*   BRANCHES  zi chou yin mao chen si wuu wei shen you xu hai             *)
(*             (the branch "wuu" is the seventh branch, the stem "wu" the  *)
(*             fifth stem: two different symbols)                          *)
(*   elements  wood fire earth metal water                                 *)
(* A Python dict is a sequence of <<key, value>> pairs in insertion order. *)
(***************************************************************************)
EXTENDS Integers, Sequences, FiniteSets, TLC

VARIABLES stdin, args, pc, raw, dt_value, bazi, idx, counts, recs, out, err, rng, calls

vars == <<stdin, args, pc, raw, dt_value, bazi, idx, counts, recs, out, err, rng, calls>>

None == "None"

(***************************************************************************)
(* Bounds of the model.                                                    *)
(***************************************************************************)
\* the calendar years of the lines typed: BaseYear - YearsBefore .. BaseYear
YearsBefore == 2

(***************************************************************************)
(* Python primitives.                                                      *)
(***************************************************************************)
\* C remainder: the sign of the dividend (not what Python computes)
c_rem(a, b) == IF a >= 0 THEN a % b ELSE 0 - ((0 - a) % b)

\* Python a % b for b > 0: the result is in 0..b-1 also for a < 0
PyMod(a, b) == a % b

\* Python a // b for b > 0: floor division
PyFloorDiv(a, b) == a \div b

\* list[i]: 0-based, a negative i counts from the end, else IndexError
list_getitem(L, i) ==
  IF 0 <= i /\ i < Len(L) THEN L[i + 1]
  ELSE IF 0 - Len(L) <= i /\ i < 0 THEN L[Len(L) + i + 1]
  ELSE "IndexError"

RECURSIVE list_index_from(_, _, _)
\* the 0-based position of the first x at or after that position; -1 when there is none
list_index_from(L, x, i) ==
  IF i >= Len(L) THEN 0 - 1
  ELSE IF L[i + 1] = x THEN i
  ELSE list_index_from(L, x, i + 1)

\* list.index(x): the 0-based position of the first x; -1 stands for ValueError
list_index(L, x) == list_index_from(L, x, 0)

dict_has(D, k) == \E i \in 1..Len(D) : D[i][1] = k

\* dict[k] for a dict whose values are strings; "KeyError" when k is no key
dict_get(D, k) ==
  IF dict_has(D, k) THEN D[CHOOSE i \in 1..Len(D) : D[i][1] = k][2] ELSE "KeyError"

IsLookupError(x) == x \in {"IndexError", "KeyError"}

(***************************************************************************)
(* The tables.                                                             *)
(***************************************************************************)
STEMS == <<"jia", "yi", "bing", "ding", "wu", "ji", "geng", "xin", "ren", "gui">>

BRANCHES ==
  <<"zi", "chou", "yin", "mao", "chen", "si", "wuu", "wei", "shen", "you", "xu", "hai">>

ELEMENTS_BY_STEM ==
  << <<"jia", "wood">>, <<"yi", "wood">>, <<"bing", "fire">>, <<"ding", "fire">>,
     <<"wu", "earth">>, <<"ji", "earth">>, <<"geng", "metal">>, <<"xin", "metal">>,
     <<"ren", "water">>, <<"gui", "water">> >>

ELEMENTS_BY_BRANCH ==
  << <<"zi", "water">>, <<"chou", "earth">>, <<"yin", "wood">>, <<"mao", "wood">>,
     <<"chen", "earth">>, <<"si", "fire">>, <<"wuu", "fire">>, <<"wei", "earth">>,
     <<"shen", "metal">>, <<"you", "metal">>, <<"xu", "earth">>, <<"hai", "water">> >>

MONTH_BRANCHES_BY_GREGORIAN ==
  << <<1, "chou">>, <<2, "yin">>, <<3, "mao">>, <<4, "chen">>, <<5, "si">>,
     <<6, "wuu">>, <<7, "wei">>, <<8, "shen">>, <<9, "you">>, <<10, "xu">>,
     <<11, "hai">>, <<12, "zi">> >>

HOUR_BRANCHES ==
  << <<23, 1, "zi">>, <<1, 3, "chou">>, <<3, 5, "yin">>, <<5, 7, "mao">>,
     <<7, 9, "chen">>, <<9, 11, "si">>, <<11, 13, "wuu">>, <<13, 15, "wei">>,
     <<15, 17, "shen">>, <<17, 19, "you">>, <<19, 21, "xu">>, <<21, 23, "hai">> >>

MONTH_STEM_START ==
  << <<"jia", "bing">>, <<"ji", "bing">>, <<"yi", "wu">>, <<"geng", "wu">>,
     <<"bing", "geng">>, <<"xin", "geng">>, <<"ding", "ren">>, <<"ren", "ren">>,
     <<"wu", "jia">>, <<"gui", "jia">> >>

HOUR_STEM_START ==
  << <<"jia", "jia">>, <<"ji", "jia">>, <<"yi", "bing">>, <<"geng", "bing">>,
     <<"bing", "wu">>, <<"xin", "wu">>, <<"ding", "geng">>, <<"ren", "geng">>,
     <<"wu", "ren">>, <<"gui", "ren">> >>

ELEMENT_DIGITS ==
  << <<"wood", <<3, 4>> >>, <<"fire", <<9>> >>, <<"earth", <<2, 5, 8>> >>,
     <<"metal", <<6, 7>> >>, <<"water", <<0, 1>> >> >>

Elements == <<"wood", "fire", "earth", "metal", "water">>

(***************************************************************************)
(* datetime.date arithmetic (proleptic Gregorian ordinals).                *)
(***************************************************************************)
_is_leap(year) == year % 4 = 0 /\ (year % 100 # 0 \/ year % 400 = 0)

_days_in_month(year, month) ==
  IF month = 2 /\ _is_leap(year) THEN 29
  ELSE <<31, 28, 31, 30, 31, 30, 31, 31, 30, 31, 30, 31>>[month]

_days_before_year(year) ==
  LET y == year - 1
  IN  y * 365 + PyFloorDiv(y, 4) - PyFloorDiv(y, 100) + PyFloorDiv(y, 400)

\* the days before a month with no leap day counted: not the code
_days_before_month_no_leap(year, month) ==
  <<0, 31, 59, 90, 120, 151, 181, 212, 243, 273, 304, 334>>[month]

_days_before_month(year, month) ==
  <<0, 31, 59, 90, 120, 151, 181, 212, 243, 273, 304, 334>>[month]
    + (IF month > 2 /\ _is_leap(year) THEN 1 ELSE 0)

\* date.toordinal()
_ymd2ord(date_value) ==
  _days_before_year(date_value.year)
    + _days_before_month(date_value.year, date_value.month) + date_value.day

\* 1984-02-04, the start of spring of 1984, as the base day: not the code
BaseDateStartOfSpring == [year |-> 1984, month |-> 2, day |-> 4]

BaseDate == [year |-> 1984, month |-> 2, day |-> 2]

BaseYear == 1984

(***************************************************************************)
(* The pillar calculator.                                                  *)
(***************************************************************************)
\* the two table indices _stem_branch_from_index uses
_stem_branch_indices(index) == <<PyMod(index, 10), PyMod(index, 12)>>

_stem_branch_from_index(index) ==
  <<list_getitem(STEMS, _stem_branch_indices(index)[1]),
    list_getitem(BRANCHES, _stem_branch_indices(index)[2])>>

\* date_value - base, in days
_day_index_from_base(date_value) == _ymd2ord(date_value) - _ymd2ord(BaseDate)

\* the year counted from the base day instead of from 1 January: not the code
year_index_from_base_day(date_value) ==
  date_value.year - BaseYear
    - (IF date_value.month < BaseDate.month
          \/ (date_value.month = BaseDate.month /\ date_value.day < BaseDate.day)
       THEN 1 ELSE 0)

year_index(date_value) == date_value.year - BaseYear

year_pillar(date_value) == _stem_branch_from_index(year_index(date_value))

\* the index of the month stem in STEMS
month_stem_index(date_value, year_stem) ==
  LET start_stem  == dict_get(MONTH_STEM_START, year_stem)
      start_index == list_index(STEMS, start_stem)
      month_index == PyMod(date_value.month - 1, 12)
  IN  PyMod(start_index + month_index, 10)

month_pillar(date_value, year_stem) ==
  LET branch == dict_get(MONTH_BRANCHES_BY_GREGORIAN, date_value.month)
      stem   == list_getitem(STEMS, month_stem_index(date_value, year_stem))
  IN  <<stem, branch>>

day_pillar(date_value) == _stem_branch_from_index(_day_index_from_base(date_value))

\* the test of a window without the case of the window around midnight: not the code
hour_window_matches_no_wrap(w, hour) == w[1] <= w[2] /\ w[1] <= hour /\ hour < w[2]

\* the test of one window of HOUR_BRANCHES, as the loop of hour_pillar makes it
hour_window_matches(w, hour) ==
  \/ w[1] <= w[2] /\ w[1] <= hour /\ hour < w[2]
  \/ w[1] > w[2] /\ (hour >= w[1] \/ hour < w[2])

\* the positions (1..12) of the windows that match the hour
hour_windows(hour) ==
  {i \in 1..Len(HOUR_BRANCHES) : hour_window_matches(HOUR_BRANCHES[i], hour)}

\* the branch the loop ends with: the first matching window's, or the default
hour_branch(hour) ==
  IF hour_windows(hour) = {} THEN "zi"
  ELSE HOUR_BRANCHES[CHOOSE i \in hour_windows(hour) :
                       \A j \in hour_windows(hour) : i <= j][3]

\* the index of the hour stem in STEMS
hour_stem_index(time_value, day_stem) ==
  LET start_stem   == dict_get(HOUR_STEM_START, day_stem)
      start_index  == list_index(STEMS, start_stem)
      branch_index == list_index(BRANCHES, hour_branch(time_value.hour))
  IN  PyMod(start_index + branch_index, 10)

hour_pillar(time_value, day_stem) ==
  <<list_getitem(STEMS, hour_stem_index(time_value, day_stem)),
    hour_branch(time_value.hour)>>

compute_bazi(date_value, time_value) ==
  LET year  == year_pillar(date_value)
      month == month_pillar(date_value, year[1])
      day   == day_pillar(date_value)
      hour  == hour_pillar(time_value, day[1])
  IN  [year |-> year, month |-> month, day |-> day, hour |-> hour]

\* BaZi.pillars()
pillars(b) == <<b.year, b.month, b.day, b.hour>>

\* every index compute_bazi uses to read STEMS and BRANCHES
compute_indices(date_value, time_value) ==
  LET year == year_pillar(date_value)
      day  == day_pillar(date_value)
  IN  [stems |-> {_stem_branch_indices(year_index(date_value))[1],
                  list_index(STEMS, dict_get(MONTH_STEM_START, year[1])),
                  month_stem_index(date_value, year[1]),
                  _stem_branch_indices(_day_index_from_base(date_value))[1],
                  list_index(STEMS, dict_get(HOUR_STEM_START, day[1])),
                  hour_stem_index(time_value, day[1])},
       branches |-> {_stem_branch_indices(year_index(date_value))[2],
                     _stem_branch_indices(_day_index_from_base(date_value))[2],
                     list_index(BRANCHES, hour_branch(time_value.hour))}]

(***************************************************************************)
(* The element tally.                                                      *)
(***************************************************************************)
\* the tally of the stems alone, the branches left out: not the code
tally_stems_only(b) ==
  [k \in 1..Len(pillars(b)) |-> dict_get(ELEMENTS_BY_STEM, pillars(b)[k][1])]

\* the symbols of the pillars in the order the loop reads them, each with its element
tally_elements(b) ==
  [k \in 1..(2 * Len(pillars(b))) |->
     IF k % 2 = 1 THEN dict_get(ELEMENTS_BY_STEM, pillars(b)[(k + 1) \div 2][1])
     ELSE dict_get(ELEMENTS_BY_BRANCH, pillars(b)[k \div 2][2])]

element_strength(b) ==
  [e \in 1..Len(Elements) |->
     <<Elements[e],
       Cardinality({k \in 1..Len(tally_elements(b)) : tally_elements(b)[k] = Elements[e]})>>]

(***************************************************************************)
(* Text: str.strip, int, str of a number.                                  *)
(***************************************************************************)
Digits == <<"0", "1", "2", "3", "4", "5", "6", "7", "8", "9">>

D09 == {"0", "1", "2", "3", "4", "5", "6", "7", "8", "9"}

D19 == D09 \ {"0"}

\* the characters str.strip and the pattern \s take for white space
Whitespace == {" ", "\t"}

\* the character at position p (1-based), "" past the end
At(s, p) == IF 1 <= p /\ p <= Len(s) THEN s[p] ELSE ""

str_strip(s) ==
  LET keep == {i \in 1..Len(s) : s[i] \notin Whitespace}
  IN  IF keep = {} THEN <<>>
      ELSE SubSeq(s, CHOOSE i \in keep : \A j \in keep : i <= j,
                     CHOOSE i \in keep : \A j \in keep : i >= j)

RECURSIVE text_int(_)
\* int(text) of a text of digits, white space around them ignored
text_int(t) ==
  IF Len(t) = 0 THEN 0
  ELSE IF t[Len(t)] \in Whitespace THEN text_int(SubSeq(t, 1, Len(t) - 1))
  ELSE text_int(SubSeq(t, 1, Len(t) - 1)) * 10 + list_index(Digits, t[Len(t)])

\* str(d) of one decimal digit
digit_str(d) == Digits[d + 1]

(***************************************************************************)
(* datetime.strptime: the format as a regular expression, matched from the *)
(* start of the text with the alternatives of a directive tried in order.  *)
(***************************************************************************)
\* the directives, each a sequence of alternatives, each a sequence of classes
RE_Y == << <<D09, D09, D09, D09>> >>

RE_m == << <<{"1"}, {"0", "1", "2"}>>, <<{"0"}, D19>>, <<D19>> >>

RE_d == << <<{"3"}, {"0", "1"}>>, <<{"1", "2"}, D09>>, <<{"0"}, D19>>, <<D19>>,
           <<{" "}, D19>> >>

RE_H == << <<{"2"}, {"0", "1", "2", "3"}>>, <<{"0", "1"}, D09>>, <<D09>> >>

RE_M == << <<{"0", "1", "2", "3", "4", "5"}, D09>>, <<D09>> >>

Literal(c) == [name |-> "", alts |-> << <<{c}>> >>]

\* "%Y<sep>%m<sep>%d %H:%M"; the blank of the format matches \s+
FormatRegex(sep) ==
  << [name |-> "Y", alts |-> RE_Y], Literal(sep), [name |-> "m", alts |-> RE_m],
     Literal(sep), [name |-> "d", alts |-> RE_d], [name |-> "ws", alts |-> <<>>],
     [name |-> "H", alts |-> RE_H], Literal(":"), [name |-> "M", alts |-> RE_M] >>

NoMatch == [ok |-> FALSE, end |-> 0, groups |-> <<>>]

alt_matches(s, p, alt) == \A k \in 1..Len(alt) : At(s, p + k - 1) \in alt[k]

\* the length of the run of white space that starts at p
RECURSIVE ws_run(_, _)
ws_run(s, p) == IF At(s, p) \in Whitespace THEN 1 + ws_run(s, p + 1) ELSE 0

RECURSIVE re_match(_, _, _, _, _)
RECURSIVE re_alternatives(_, _, _, _, _, _)
RECURSIVE re_whitespace(_, _, _, _, _, _)

\* items k.. of the expression matched at position p of s
re_match(s, p, items, k, groups) ==
  IF k > Len(items) THEN [ok |-> TRUE, end |-> p - 1, groups |-> groups]
  ELSE IF items[k].name = "ws" THEN re_whitespace(s, p, items, k, groups, ws_run(s, p))
  ELSE re_alternatives(s, p, items, k, groups, 1)

\* the alternatives a.. of item k, in order: the first with which the rest matches
re_alternatives(s, p, items, k, groups, a) ==
  IF a > Len(items[k].alts) THEN NoMatch
  ELSE LET alt  == items[k].alts[a]
           rest == re_match(s, p + Len(alt), items, k + 1,
                            IF items[k].name = "" THEN groups
                            ELSE Append(groups,
                                        <<items[k].name, SubSeq(s, p, p + Len(alt) - 1)>>))
       IN  IF alt_matches(s, p, alt) /\ rest.ok THEN rest
           ELSE re_alternatives(s, p, items, k, groups, a + 1)

\* \s+ : n characters of white space, the longest run first
re_whitespace(s, p, items, k, groups, n) ==
  IF n < 1 THEN NoMatch
  ELSE LET rest == re_match(s, p + n, items, k + 1, groups)
       IN  IF rest.ok THEN rest ELSE re_whitespace(s, p, items, k, groups, n - 1)

group(groups, name) == groups[CHOOSE i \in 1..Len(groups) : groups[i][1] = name][2]

\* the checks of the datetime constructor
valid_datetime(v) ==
  /\ 1 <= v.year /\ v.year <= 9999
  /\ 1 <= v.month /\ v.month <= 12
  /\ 1 <= v.day /\ v.day <= _days_in_month(v.year, v.month)
  /\ 0 <= v.hour /\ v.hour <= 23
  /\ 0 <= v.minute /\ v.minute <= 59

NoDatetime == [year |-> 0, month |-> 0, day |-> 0, hour |-> 0, minute |-> 0]

\* datetime.strptime(s, fmt): ok is FALSE where it raises ValueError
strptime(s, sep) ==
  LET found == re_match(s, 1, FormatRegex(sep), 1, <<>>)
      v     == [year   |-> text_int(group(found.groups, "Y")),
                month  |-> text_int(group(found.groups, "m")),
                day    |-> text_int(group(found.groups, "d")),
                hour   |-> text_int(group(found.groups, "H")),
                minute |-> text_int(group(found.groups, "M"))]
  IN  IF ~found.ok THEN [ok |-> FALSE, value |-> NoDatetime]
      ELSE IF found.end # Len(s) THEN [ok |-> FALSE, value |-> NoDatetime]
      ELSE IF ~valid_datetime(v) THEN [ok |-> FALSE, value |-> NoDatetime]
      ELSE [ok |-> TRUE, value |-> v]

\* the message of the ValueError parse_datetime raises
ExpectedFormat == "YYYY-MM-DD HH:MM"

\* parse_datetime: the two formats in turn, the first that parses
parse_datetime(input_value) ==
  LET hyphen == strptime(str_strip(input_value), "-")
      slash  == strptime(str_strip(input_value), "/")
  IN  IF hyphen.ok THEN hyphen ELSE slash

(***************************************************************************)
(* The recommender.                                                        *)
(*                                                                         *)
(* hashlib.sha256 and random.Random are library algorithms; the model      *)
(* keeps what recommend_numbers relies on: the digest is a function of the *)
(* text, the generator is a state that the seed alone determines, and each *)
(* choice steps the state once.  Their values are those of small stand-in  *)
(* functions (a polynomial hash, a linear congruential step), not          *)
(* SHA-256's or the Mersenne Twister's.                                    *)
(***************************************************************************)
Alphabet == Digits \o <<"-", "/", ":", " ", "\t", "x", "T">>

RECURSIVE seed_digest(_)
\* int(hashlib.sha256(seed.encode("utf-8")).hexdigest(), 16)
seed_digest(seed) ==
  IF Len(seed) = 0 THEN 7
  ELSE (seed_digest(SubSeq(seed, 1, Len(seed) - 1)) * 31
          + list_index(Alphabet, seed[Len(seed)]) + 1) % 65521

\* no generator object exists
NoRng == 0 - 1

\* the generator one call uses although an earlier call left one behind: not the code
rng_shared(seed, left_behind) ==
  IF left_behind = NoRng THEN seed_digest(seed) % 65537 ELSE left_behind

\* rng = random.Random(int(seed_hash, 16)): a new generator in every call,
\* whatever generator an earlier call left behind
rng_for_call(seed, left_behind) == seed_digest(seed) % 65537

\* the state of the generator after one draw
rng_step(state) == (state * 75 + 74) % 65537

RECURSIVE rng_after(_, _)
\* the state of the generator after n draws
rng_after(state, n) == IF n = 0 THEN state ELSE rng_step(rng_after(state, n - 1))

\* rng.choice(seq) with the generator in the given state
rng_choice(state, seq) == seq[(rng_step(state) % Len(seq)) + 1]

\* items (sorted by count) with one more item: after every item whose count is
\* not greater, so that items of equal count keep their order
sorted_insert(items, item) ==
  LET n == Cardinality({j \in 1..Len(items) : items[j][2] <= item[2]})
  IN  SubSeq(items, 1, n) \o <<item>> \o SubSeq(items, n + 1, Len(items))

RECURSIVE sorted_elements(_)
\* sorted(element_counts.items(), key=lambda item: item[1]): ascending and stable
sorted_elements(element_counts) ==
  IF Len(element_counts) = 0 THEN <<>>
  ELSE sorted_insert(sorted_elements(SubSeq(element_counts, 1, Len(element_counts) - 1)),
                     element_counts[Len(element_counts)])

\* the elements of sorted_elements[:3]: not the code
weak_elements_three(element_counts) ==
  LET s == sorted_elements(element_counts)
  IN  [k \in 1..(IF Len(s) < 3 THEN Len(s) ELSE 3) |-> s[k][1]]

\* [element for element, _ in sorted_elements[:2]]
weak_elements(element_counts) ==
  LET s == sorted_elements(element_counts)
  IN  [k \in 1..(IF Len(s) < 2 THEN Len(s) ELSE 2) |-> s[k][1]]

\* the digit list of an element in ELEMENT_DIGITS
element_digits(element) ==
  ELEMENT_DIGITS[CHOOSE i \in 1..Len(ELEMENT_DIGITS) : ELEMENT_DIGITS[i][1] = element][2]

RECURSIVE concat_digits(_)
\* the digit lists of the elements, one after the other
concat_digits(elements) ==
  IF Len(elements) = 0 THEN <<>>
  ELSE concat_digits(SubSeq(elements, 1, Len(elements) - 1))
         \o element_digits(elements[Len(elements)])

\* digits_pool, with the fallback to every digit of ELEMENT_DIGITS
digits_pool(element_counts) ==
  LET pool == concat_digits(weak_elements(element_counts))
  IN  IF pool # <<>> THEN pool ELSE concat_digits(Elements)

\* whether the fallback of line 195 is taken
fallback_taken(element_counts) == concat_digits(weak_elements(element_counts)) = <<>>

\* sorted(set(digits)) as a sequence
sorted_set(digits) ==
  LET S == {digits[i] : i \in 1..Len(digits)}
  IN  [k \in 1..Cardinality(S) |->
         CHOOSE d \in S : Cardinality({e \in S : e < d}) = k - 1]

\* the explanation: the weak elements, then the digits of the pool in order
explanation(element_counts) ==
  LET digits == sorted_set(digits_pool(element_counts))
  IN  <<"weak">> \o weak_elements(element_counts) \o <<"digits">>
        \o [k \in 1..Len(digits) |-> digit_str(digits[k])]

\* the digits of one number
NumberLen == 4

\* the default of the parameter sets
DefaultSets == 5

RECURSIVE rng_run(_, _)
\* the states of the generator, extended by those of n more draws
rng_run(states, n) ==
  IF n <= 0 THEN states
  ELSE rng_run(Append(states, rng_step(states[Len(states)])), n - 1)

\* the list recommend_numbers returns, its generator starting in state rng0:
\* digit k of number j is draw (j - 1) * NumberLen + k of the generator
recommendations(rng0, element_counts, sets) ==
  LET pool   == digits_pool(element_counts)
      expl   == explanation(element_counts)
      states == rng_run(<<rng0>>, sets * NumberLen)
  IN  [j \in 1..sets |->
         <<[k \in 1..NumberLen |->
              digit_str(rng_choice(states[(j - 1) * NumberLen + k], pool))],
           expl>>]

\* the state the generator is left in when the call returns
rng_at_return(rng0, sets) == rng_after(rng0, (IF sets > 0 THEN sets ELSE 0) * NumberLen)

(***************************************************************************)
(* The lines the user may type.                                            *)
(***************************************************************************)
pad2(n) == <<Digits[((n \div 10) % 10) + 1], Digits[(n % 10) + 1]>>

pad4(n) == pad2(n \div 100) \o pad2(n % 100)

\* a number as typed without leading zeros (below 100)
unpadded(n) == IF n < 10 THEN <<Digits[n + 1]>> ELSE pad2(n)

Years == (BaseYear - YearsBefore)..BaseYear

Minutes == {30}

\* the hours typed for the days of the years before BaseYear
SomeHours == {0, 12, 23}

\* the hour of the lines typed with slashes
SlashHours == {8}

DateLine(y, sep1, m, sep2, d, gap, h, mi) ==
  pad4(y) \o <<sep1>> \o pad2(m) \o <<sep2>> \o pad2(d) \o gap \o pad2(h) \o <<":">>
    \o pad2(mi)

\* YYYY-MM-DD HH:MM, every day number 1..31 of every month (some are no dates):
\* every hour of every day of BaseYear, some hours of the days of the years before
HyphenLines ==
  {DateLine(BaseYear, "-", m, "-", d, <<" ">>, h, mi) :
     m \in 1..12, d \in 1..31, h \in 0..23, mi \in Minutes}
  \cup
  {DateLine(y, "-", m, "-", d, <<" ">>, h, mi) :
     y \in Years, m \in 1..12, d \in 1..31, h \in SomeHours, mi \in Minutes}

\* YYYY/MM/DD HH:MM
SlashLines ==
  {DateLine(y, "/", m, "/", d, <<" ">>, h, mi) :
     y \in Years, m \in 1..12, d \in 1..31, h \in SlashHours, mi \in Minutes}

\* lines in other shapes, around the dates of the first days of February
OtherLines ==
  UNION {
    { \* components without their leading zeros
      pad4(y) \o <<"-">> \o unpadded(2) \o <<"-">> \o unpadded(d) \o <<" ">>
        \o unpadded(h) \o <<":">> \o unpadded(5),
      pad4(y) \o <<"/">> \o unpadded(2) \o <<"/">> \o pad2(d) \o <<" ">>
        \o pad2(h) \o <<":">> \o pad2(30),
      \* a blank in place of the zero of the day
      pad4(y) \o <<"-">> \o pad2(2) \o <<"-", " ">> \o unpadded(d) \o <<" ">>
        \o pad2(h) \o <<":">> \o pad2(30),
      \* the two separators mixed
      DateLine(y, "-", 2, "/", d, <<" ">>, h, 30),
      DateLine(y, "/", 2, "-", d, <<" ">>, h, 30),
      \* other white space between the date and the time, and around the line
      DateLine(y, "-", 2, "-", d, <<" ", " ">>, h, 30),
      DateLine(y, "-", 2, "-", d, <<"\t">>, h, 30),
      <<" ">> \o DateLine(y, "-", 2, "-", d, <<" ">>, h, 30) \o <<" ", "\t">>,
      \* no white space, a letter, text after the minute
      DateLine(y, "-", 2, "-", d, <<>>, h, 30),
      DateLine(y, "-", 2, "-", d, <<"T">>, h, 30),
      DateLine(y, "-", 2, "-", d, <<" ">>, h, 30) \o <<"x">>,
      DateLine(y, "-", 2, "-", d, <<" ">>, h, 30) \o <<"5">>,
      \* a year of three or of five digits, the year 0000
      SubSeq(DateLine(y, "-", 2, "-", d, <<" ">>, h, 30), 2, 16),
      <<"0">> \o DateLine(y, "-", 2, "-", d, <<" ">>, h, 30),
      DateLine(0, "-", 2, "-", d, <<" ">>, h, 30),
      \* components out of range
      DateLine(y, "-", 13, "-", d, <<" ">>, h, 30),
      DateLine(y, "-", 0, "-", d, <<" ">>, h, 30),
      DateLine(y, "-", 2, "-", 0, <<" ">>, h, 30),
      DateLine(y, "-", 2, "-", 32, <<" ">>, h, 30),
      DateLine(y, "-", 2, "-", d, <<" ">>, 24, 30),
      DateLine(y, "-", 2, "-", d, <<" ">>, h, 60),
      \* no date at all
      <<"x", "x", "x">>, <<>> } :
    y \in {BaseYear - 1, BaseYear}, d \in {2, 9}, h \in {0, 8}}

Lines == HyphenLines \cup SlashLines \cup OtherLines

(***************************************************************************)
(* main: one run of the program.                                           *)
(***************************************************************************)
NoBaZi == [year |-> <<"", "">>, month |-> <<"", "">>, day |-> <<"", "">>,
           hour |-> <<"", "">>]

NoIndices == [stems |-> {}, branches |-> {}]

date_of(v) == [year |-> v.year, month |-> v.month, day |-> v.day]

time_of(v) == [hour |-> v.hour, minute |-> v.minute]

\* nothing read, nothing computed, no generator
Blank ==
  /\ raw = <<>>
  /\ dt_value = NoDatetime
  /\ bazi = NoBaZi
  /\ idx = NoIndices
  /\ counts = <<>>
  /\ recs = <<>>
  /\ out = <<>>
  /\ err = None
  /\ rng = NoRng
  /\ calls = <<>>

\* no call of recommend_numbers of its own is to be made
NoArgs == [seed |-> <<>>, element_counts |-> <<>>, sets |-> 0 - 1]

\* the program is started; the line the user is going to type is any of Lines
Init == stdin \in Lines /\ args = NoArgs /\ pc = "start" /\ Blank

\* print the prompt; raw = input().strip()
ReadLine ==
  /\ pc = "start"
  /\ raw' = str_strip(stdin)
  /\ out' = << <<"prompt", ExpectedFormat>> >>
  /\ pc' = "read"
  /\ UNCHANGED <<stdin, args, dt_value, bazi, idx, counts, recs, err, rng, calls>>

\* dt_value = parse_datetime(raw); its ValueError ends the run
Parse ==
  /\ pc = "read"
  /\ LET parsed == parse_datetime(raw)
     IN  IF parsed.ok
         THEN /\ dt_value' = parsed.value
              /\ pc' = "parsed"
              /\ err' = err
         ELSE /\ dt_value' = dt_value
              /\ pc' = "error"
              /\ err' = <<"ValueError", ExpectedFormat>>
  /\ UNCHANGED <<stdin, args, raw, bazi, idx, counts, recs, out, rng, calls>>

\* the symbols of a reading, the eight of them
symbols(b) == {pillars(b)[i][j] : i \in 1..Len(pillars(b)), j \in 1..2}

\* bazi = compute_bazi(dt_value.date(), dt_value.time())
Compute ==
  /\ pc = "parsed"
  /\ LET b == compute_bazi(date_of(dt_value), time_of(dt_value))
     IN  /\ bazi' = b
         /\ idx' = compute_indices(date_of(dt_value), time_of(dt_value))
         /\ IF \E x \in symbols(b) : IsLookupError(x)
            THEN /\ pc' = "error"
                 /\ err' = <<CHOOSE x \in symbols(b) : IsLookupError(x), "">>
            ELSE /\ pc' = "computed"
                 /\ err' = err
  /\ UNCHANGED <<stdin, args, raw, dt_value, counts, recs, out, rng, calls>>

\* counts = element_strength(bazi)
Tally ==
  /\ pc = "computed"
  /\ IF \E k \in 1..Len(tally_elements(bazi)) : IsLookupError(tally_elements(bazi)[k])
     THEN /\ pc' = "error"
          /\ err' = <<"KeyError", "">>
          /\ counts' = counts
     ELSE /\ pc' = "tallied"
          /\ err' = err
          /\ counts' = element_strength(bazi)
  /\ UNCHANGED <<stdin, args, raw, dt_value, bazi, idx, recs, out, rng, calls>>

Labels == <<"year", "month", "day", "hour">>

\* the lines of the pillars and of the tally
PrintReading ==
  /\ pc = "tallied"
  /\ out' = out \o << <<"bazi">> >>
              \o [i \in 1..Len(Labels) |->
                    <<"pillar", Labels[i], pillars(bazi)[i][1], pillars(bazi)[i][2]>>]
              \o << <<"strength">> >>
              \o [i \in 1..Len(counts) |->
                    <<"count", counts[i][1], digit_str(counts[i][2])>>]
  /\ pc' = "printed"
  /\ UNCHANGED <<stdin, args, raw, dt_value, bazi, idx, counts, recs, err, rng, calls>>

\* recommend_numbers(raw, counts) and its lines
Recommend ==
  /\ pc = "printed"
  /\ LET rng0 == rng_for_call(raw, rng)
         list == recommendations(rng0, counts, DefaultSets)
     IN  /\ recs' = list
         /\ rng' = rng_at_return(rng0, DefaultSets)
         /\ out' = out \o << <<"recommended">> >>
                     \o [i \in 1..Len(list) |->
                           <<"recommendation", digit_str(i)>> \o list[i][1] \o list[i][2]]
  /\ pc' = "done"
  /\ UNCHANGED <<stdin, args, raw, dt_value, bazi, idx, counts, err, calls>>

Next == ReadLine \/ Parse \/ Compute \/ Tally \/ PrintReading \/ Recommend

Spec == Init /\ [][Next]_vars

(***************************************************************************)
(* recommend_numbers called on its own: any seed, any tally, any count.    *)
(***************************************************************************)
\* the largest count a call asks for
MaxSets == 5

\* the largest count of a category in the tallies passed
MaxCount == 4

\* the calls made one after the other in one process
MaxCalls == 3

\* the line "1984-02-02 00:30"
EpochLine ==
  <<"1", "9", "8", "4", "-", "0", "2", "-", "0", "2", " ", "0", "0", ":", "3", "0">>

Seeds == {EpochLine, <<>>}

\* every tally of the five categories with counts up to MaxCount
Tallies ==
  {<< <<"wood", a>>, <<"fire", b>>, <<"earth", c>>, <<"metal", d>>, <<"water", e>> >> :
     a \in 0..MaxCount, b \in 0..MaxCount, c \in 0..MaxCount, d \in 0..MaxCount,
     e \in 0..MaxCount}

\* one call of recommend_numbers; calls records it
recommend_numbers(seed, element_counts, sets) ==
  /\ LET rng0 == rng_for_call(seed, rng)
         list == recommendations(rng0, element_counts, sets)
     IN  /\ recs' = list
         /\ rng' = rng_at_return(rng0, sets)
         /\ calls' = Append(calls, [seed |-> seed, element_counts |-> element_counts,
                                    sets |-> sets, result |-> list])
  /\ raw' = seed
  /\ counts' = element_counts
  /\ pc' = "returned"
  /\ UNCHANGED <<stdin, args, dt_value, bazi, idx, out, err>>

\* a caller is about to call recommend_numbers with any arguments
InitRec ==
  /\ stdin = <<>>
  /\ args \in [seed : Seeds, element_counts : Tallies, sets : 0..MaxSets]
  /\ pc = "idle"
  /\ Blank

NextRec ==
  /\ Len(calls) < 1
  /\ recommend_numbers(args.seed, args.element_counts, args.sets)

SpecRec == InitRec /\ [][NextRec]_vars

\* the tallies of the readings of the base day at midnight and at noon
CallTallies ==
  {element_strength(compute_bazi(BaseDate, [hour |-> h, minute |-> 30])) : h \in {0, 12}}

CallSeeds == {EpochLine, <<>>}

NextCalls ==
  \E seed \in CallSeeds, element_counts \in CallTallies, sets \in {1, DefaultSets} :
    /\ Len(calls) < MaxCalls
    /\ recommend_numbers(seed, element_counts, sets)

InitCalls == stdin = <<>> /\ args = NoArgs /\ pc = "idle" /\ Blank

SpecCalls == InitCalls /\ [][NextCalls]_vars

(***************************************************************************)
(* The properties.                                                         *)
(***************************************************************************)
\* the run has a reading: compute_bazi has returned
Computed == pc \in {"computed", "tallied", "printed", "done"}

\* the run has a tally: element_strength has returned
Tallied == pc \in {"tallied", "printed", "done"}

RECURSIVE sum_counts(_)
sum_counts(items) ==
  IF Len(items) = 0 THEN 0
  ELSE sum_counts(SubSeq(items, 1, Len(items) - 1)) + items[Len(items)][2]

\* C1: the tally of every reading has exactly the five keys wood, fire, earth,
\* metal, water (a category without a symbol has the count 0), every count is in
\* 0..8, and the counts sum to 8.
C1_TallySumsToEight ==
  Tallied =>
    /\ Len(counts) = 5
    /\ {counts[i][1] : i \in 1..Len(counts)} = {"wood", "fire", "earth", "metal", "water"}
    /\ \A i \in 1..Len(counts) : counts[i][2] \in 0..8
    /\ sum_counts(counts) = 8

\* a tally in which a category has no symbol, of a day before the base day
C1_Witness ==
  /\ pc = "tallied"
  /\ \E i \in 1..Len(counts) : counts[i][2] = 0
  /\ _day_index_from_base(date_of(dt_value)) < 0

\* C2: for every date, also before 1984 and before the base day, and every hour,
\* every index used to read STEMS is in 0..9 and every index used to read BRANCHES
\* is in 0..11, every symbol of the reading is a symbol of the tables, and no run
\* ends with a failed lookup.
C2_IndicesInRange ==
  /\ Computed =>
       /\ idx.stems \subseteq 0..9
       /\ idx.branches \subseteq 0..11
       /\ \A i \in 1..Len(pillars(bazi)) :
            /\ dict_has(ELEMENTS_BY_STEM, pillars(bazi)[i][1])
            /\ dict_has(ELEMENTS_BY_BRANCH, pillars(bazi)[i][2])
       /\ dict_has(MONTH_BRANCHES_BY_GREGORIAN, dt_value.month)
  /\ pc = "error" => err[1] = "ValueError"

\* a reading of a year before 1984, so of a day before the base day
C2_Witness ==
  /\ pc = "computed"
  /\ year_index(date_of(dt_value)) < 0
  /\ _day_index_from_base(date_of(dt_value)) < 0
  /\ dt_value.hour = 23

\* the first day of the month after that of a date
next_month(d) ==
  IF d.month < 12 THEN [year |-> d.year, month |-> d.month + 1, day |-> 1]
  ELSE [year |-> d.year + 1, month |-> 1, day |-> 1]

RECURSIVE plus_days(_, _)
\* the date n days after a date, found by walking the calendar month by month
plus_days(d, n) ==
  IF d.day + n <= _days_in_month(d.year, d.month) THEN [d EXCEPT !.day = @ + n]
  ELSE plus_days(next_month(d), n - (_days_in_month(d.year, d.month) - d.day + 1))

\* C3: the day pillar of every date is the day pillar of the date 60 days later,
\* stem and branch, on either side of the base day.
C3_DayPillarPeriod60 ==
  Computed => bazi.day = day_pillar(plus_days(date_of(dt_value), 60))

\* a day before the base day and before the leap day of 1984, 60 days before a
\* day after both
C3_Witness ==
  /\ pc = "computed"
  /\ dt_value.year = BaseYear
  /\ dt_value.month = 1
  /\ _day_index_from_base(date_of(dt_value)) < 0
  /\ _day_index_from_base(plus_days(date_of(dt_value), 60)) > 0
  /\ plus_days(date_of(dt_value), 60).month = 3

\* C4: the year pillar depends on the calendar year alone; its stem is that of
\* the year ten years later and its branch that of the year twelve years later,
\* also for the years before 1984.
C4_YearPillarPeriodic ==
  Computed =>
    LET d == date_of(dt_value)
    IN  /\ \A m \in 1..12, n \in {1, 28} :
             bazi.year = year_pillar([year |-> d.year, month |-> m, day |-> n])
        /\ bazi.year[1] = year_pillar([d EXCEPT !.year = @ + 10])[1]
        /\ bazi.year[2] = year_pillar([d EXCEPT !.year = @ + 12])[2]

\* a year before 1984, ten years before a year after it, on a day of January
C4_Witness ==
  /\ pc = "computed"
  /\ dt_value.year < BaseYear
  /\ dt_value.year + 10 > BaseYear
  /\ dt_value.month = 1

\* C5: the line "1984-02-02 00:30" is parsed, and its reading has the day pillar
\* (STEMS[0], BRANCHES[0]), the year pillar (STEMS[0], BRANCHES[0]), and the hour
\* 00 in the first window, so the hour branch BRANCHES[0].
C5_EpochScenario ==
  raw = EpochLine =>
    /\ pc # "error"
    /\ Computed =>
         /\ bazi.day = <<STEMS[1], BRANCHES[1]>>
         /\ bazi.year = <<STEMS[1], BRANCHES[1]>>
         /\ dt_value.hour = 0
         /\ 1 \in hour_windows(dt_value.hour)
         /\ bazi.hour[2] = BRANCHES[1]

\* the run on the line "1984-02-02 00:30" has ended
C5_Witness == pc = "done" /\ raw = EpochLine /\ bazi.hour[2] = "zi"

\* C8: for every hour 0..23 and every day stem exactly one window matches; the
\* hours 23 and 0 give the first branch and every other hour h the branch of index
\* (h + 1) div 2; the index of the hour stem is (the index of
\* HOUR_STEM_START[day stem] + the index of the branch) mod 10; the day stem five
\* places further gives the same hour stem.
C8_HourPillar ==
  Computed =>
    LET h       == dt_value.hour
        branch  == IF h \in {23, 0} THEN 0 ELSE (h + 1) \div 2
        day     == list_index(STEMS, bazi.day[1])
        start   == list_index(STEMS, dict_get(HOUR_STEM_START, bazi.day[1]))
    IN  /\ Cardinality(hour_windows(h)) = 1
        /\ bazi.hour[2] = BRANCHES[branch + 1]
        /\ list_index(STEMS, bazi.hour[1]) = (start + branch) % 10
        /\ hour_pillar(time_of(dt_value), STEMS[((day + 5) % 10) + 1])[1] = bazi.hour[1]

\* the hour 23, in the window around midnight
C8_Witness == pc = "computed" /\ dt_value.hour = 23 /\ bazi.hour[2] = "zi"

\* C6: two calls of recommend_numbers with the same seed, the same tally and the
\* same count return the same list, whatever calls were made before them.
C6_Deterministic ==
  \A i, j \in 1..Len(calls) :
    (/\ calls[i].seed = calls[j].seed
     /\ calls[i].element_counts = calls[j].element_counts
     /\ calls[i].sets = calls[j].sets)
    => calls[i].result = calls[j].result

\* a call repeated after a call with another seed
C6_Witness ==
  /\ Len(calls) = 3
  /\ calls[1].seed = calls[3].seed
  /\ calls[1].element_counts = calls[3].element_counts
  /\ calls[1].sets = calls[3].sets
  /\ calls[1].sets = DefaultSets
  /\ calls[2].seed # calls[1].seed
  /\ calls[2].result # calls[1].result

\* the position of the lowest count of a tally outside the excluded positions,
\* the first of them when several are equal
lowest(element_counts, excluded) ==
  CHOOSE i \in (1..Len(element_counts)) \ excluded :
    \A j \in (1..Len(element_counts)) \ excluded :
      \/ element_counts[i][2] < element_counts[j][2]
      \/ element_counts[i][2] = element_counts[j][2] /\ i <= j

\* the digits of the two categories of lowest count, as characters
weak_digits(element_counts) ==
  LET first  == lowest(element_counts, {})
      second == lowest(element_counts, {first})
  IN  UNION {{digit_str(element_digits(element_counts[e][1])[k]) :
                k \in 1..Len(element_digits(element_counts[e][1]))} :
             e \in {first, second}}

\* C9: every call returns sets entries, each number four decimal digits, every
\* digit from the digit lists of the two categories of lowest count (ties in the
\* order wood, fire, earth, metal, water); the pool is not empty and the fallback
\* is not taken.
C9_Recommendations ==
  \A c \in 1..Len(calls) :
    /\ Len(calls[c].result) = calls[c].sets
    /\ \A j \in 1..Len(calls[c].result) :
         /\ Len(calls[c].result[j][1]) = 4
         /\ \A k \in 1..Len(calls[c].result[j][1]) :
              /\ calls[c].result[j][1][k] \in D09
              /\ calls[c].result[j][1][k] \in weak_digits(calls[c].element_counts)
    /\ ~fallback_taken(calls[c].element_counts)
    /\ digits_pool(calls[c].element_counts) # <<>>

\* a call with the default count and a tally in which the second and the third
\* lowest counts are equal
C9_Witness ==
  /\ Len(calls) = 1
  /\ calls[1].sets = DefaultSets
  /\ Len(calls[1].result) = 5
  /\ calls[1].element_counts =
       << <<"wood", 2>>, <<"fire", 1>>, <<"earth", 1>>, <<"metal", 0>>, <<"water", 3>> >>

\* a line of the form YYYY-MM-DD HH:MM or YYYY/MM/DD HH:MM, every component with
\* all its digits
IsPaddedForm(s) ==
  /\ Len(s) = 16
  /\ \A i \in {1, 2, 3, 4, 6, 7, 9, 10, 12, 13, 15, 16} : s[i] \in D09
  /\ s[5] \in {"-", "/"}
  /\ s[8] = s[5]
  /\ s[11] = " "
  /\ s[14] = ":"

\* C7: a line is parsed only when it has the form YYYY-MM-DD HH:MM or
\* YYYY/MM/DD HH:MM with every component zero-padded; on every other line the run
\* ends with the error that carries the expected format, no later stage has run
\* and nothing but the prompt is printed.
C7_OnlyPaddedFormAccepted ==
  (pc \notin {"start", "read"} /\ ~IsPaddedForm(raw)) =>
    /\ pc = "error"
    /\ err = <<"ValueError", ExpectedFormat>>
    /\ bazi = NoBaZi
    /\ counts = <<>>
    /\ recs = <<>>
    /\ out = << <<"prompt", ExpectedFormat>> >>

\* C10: each of the four pillars of a reading is a pair of the sexagenary cycle:
\* the index of its stem in STEMS and the index of its branch in BRANCHES have the
\* same parity.
C10_SexagenaryPairs ==
  Computed =>
    \A i \in 1..Len(pillars(bazi)) :
      list_index(STEMS, pillars(bazi)[i][1]) % 2
        = list_index(BRANCHES, pillars(bazi)[i][2]) % 2

====
